---------------------------- MODULE Spec2Model ----------------------------
(***************************************************************************)
(* A model of the Penguin lexer (src/src/lexer.rs).                        *)
(*                                                                         *)
(* A character is modelled as a string; a source text, a token literal and *)
(* a string buffer are sequences of characters.  Characters that have no   *)
(* TLA+ string escape are named: "NUL" is U+0000, "CR" is U+000D,          *)
(* "E_ACUTE" is U+00E9 (alphabetic, not ASCII), "SUP2" is U+00B2           *)
(* (numeric, not a digit) and "ARABIC3" is U+0663 (the decimal digit       *)
(* three, not ASCII).                                                      *)
(*                                                                         *)
(* One action models one arm of the `match current` of Lexer::lex, that    *)
(* is one whole iteration of its main loop, inner loops included.          *)
(***************************************************************************)
EXTENDS Integers, Sequences, FiniteSets, TLC

VARIABLES
    source,     \* Lexer.source: the characters of the input, fixed
    loc,        \* Lexer.loc: the Location record
    current,    \* Lexer.current: Option<char>
    tokens,     \* the local `tokens` vector of the running call of lex
    pc,         \* "idle" (constructed / returned), "loop" (in lex), "panic"
    results,    \* how the calls of lex made so far ended, in order
    calls,      \* how many times lex has been called on this Lexer
    arm,        \* the match arm the last main-loop iteration took
    start,      \* loc.index at the beginning of that iteration
    before      \* `tokens` at the beginning of that iteration

vars == << source, loc, current, tokens, pc, results, calls, arm, start, before >>

(***************************************************************************)
(* Bounds of the model.                                                    *)
(***************************************************************************)
MaxLen == 3
MaxCommentLen == 6
MaxStringLen == 5
MaxOpLen == 3
MaxKeywordLen == 4
MaxLineCommentLen == 5
MaxCalls == 2
MaxLine == 3
MaxColumn == 3

(***************************************************************************)
(* Option<char>::None, and the characters.                                 *)
(***************************************************************************)
None == "None"

LowerLetters ==
    << "a", "b", "c", "d", "e", "f", "g", "h", "i", "j", "k", "l", "m",
       "n", "o", "p", "q", "r", "s", "t", "u", "v", "w", "x", "y", "z" >>

UpperLetters ==
    << "A", "B", "C", "D", "E", "F", "G", "H", "I", "J", "K", "L", "M",
       "N", "O", "P", "Q", "R", "S", "T", "U", "V", "W", "X", "Y", "Z" >>

Range(s) == { s[i] : i \in 1..Len(s) }

AsciiLetters == Range(LowerLetters) \cup Range(UpperLetters)

AsciiDigits == { "0", "1", "2", "3", "4", "5", "6", "7", "8", "9" }

\* char::is_numeric: the Unicode categories Nd, Nl, No
is_numeric(c) == c \in AsciiDigits \cup { "SUP2", "ARABIC3" }

\* char::is_alphanumeric: alphabetic or numeric
is_alphanumeric(c) == c \in AsciiLetters \cup { "E_ACUTE" } \/ is_numeric(c)

\* char::is_whitespace: the Unicode White_Space property
is_whitespace(c) == c \in { " ", "\n", "\t", "CR" }

\* str::to_lowercase, character by character
LowerChar(c) ==
    IF c \in Range(UpperLetters)
    THEN LowerLetters[CHOOSE i \in 1..26 : UpperLetters[i] = c]
    ELSE c

to_lowercase(s) == [ i \in 1..Len(s) |-> LowerChar(s[i]) ]

(***************************************************************************)
(* Token::new.  TokenKind::Number(usize) carries a value: `num` is that    *)
(* value as its decimal digits without leading zeros, and <<>> for every   *)
(* other kind.                                                             *)
(***************************************************************************)
Token(kind, literal) == [ kind |-> kind, num |-> <<>>, literal |-> literal ]

NumberToken(value, literal) ==
    [ kind |-> "Number", num |-> value, literal |-> literal ]

(***************************************************************************)
(* Location                                                                *)
(***************************************************************************)
LocationNew(line, column) ==
    [ line |-> line, column |-> column, index |-> 0,
      prev_line_length |-> 0, current_line_length |-> 0 ]

advance(l, c) ==
    IF c = None THEN l
    ELSE IF c = "\n"
         THEN [ line |-> l.line + 1, column |-> 0, index |-> l.index + 1,
                prev_line_length |-> l.current_line_length,
                current_line_length |-> 0 ]
         ELSE [ l EXCEPT !.column = @ + 1, !.current_line_length = @ + 1,
                         !.index = @ + 1 ]

\* usize subtraction: a value below 0 here stands for an underflow
retreat(l, c) ==
    IF c = None THEN l
    ELSE IF c = "\n"
         THEN [ line |-> l.line - 1, column |-> 0, index |-> l.index - 1,
                current_line_length |-> l.prev_line_length,
                prev_line_length |-> 0 ]
         ELSE [ l EXCEPT !.column = @ - 1, !.index = @ - 1 ]

(***************************************************************************)
(* Lexer::current_char, Lexer::next, Lexer::prev as functions of the       *)
(* source and the location.                                                *)
(***************************************************************************)
current_char(src, l) ==
    IF l.index >= 0 /\ l.index < Len(src) THEN src[l.index + 1] ELSE None

next(src, l) == advance(l, current_char(src, l))

prev(src, l) == retreat(l, current_char(src, l))


(***************************************************************************)
(* What one iteration of the main loop leaves: the location, the token     *)
(* list, and how the iteration ended: it fell through to the loop head     *)
(* (NoErr), returned Err(..), or panicked.                                 *)
(***************************************************************************)
NoErr == [ tag |-> "none", ch |-> None ]

Err(tag, c) == [ tag |-> tag, ch |-> c ]

Panicked == [ tag |-> "panic", ch |-> None ]

Outcome(l, toks, e) == [ loc |-> l, tokens |-> toks, err |-> e ]

Last(s) == s[Len(s)]

Front(s) == SubSeq(s, 1, Len(s) - 1)

(***************************************************************************)
(* The arms that push one token for one character and advance.             *)
(***************************************************************************)
SingleArm(src, l, toks, kind) ==
    Outcome(next(src, l), Append(toks, Token(kind, << current_char(src, l) >>)), NoErr)

ColonArm(src, l, toks) == SingleArm(src, l, toks, "TypeAssignment")

SemicolonArm(src, l, toks) == SingleArm(src, l, toks, "Semicolon")

OpenParenArm(src, l, toks) == SingleArm(src, l, toks, "OpenParen")

CloseParenArm(src, l, toks) == SingleArm(src, l, toks, "CloseParen")

OpenBraceArm(src, l, toks) == SingleArm(src, l, toks, "OpenBrace")

CloseBraceArm(src, l, toks) == SingleArm(src, l, toks, "CloseBrace")

OpenBracketArm(src, l, toks) == SingleArm(src, l, toks, "OpenBracket")

CloseBracketArm(src, l, toks) == SingleArm(src, l, toks, "CloseBracket")

CommaArm(src, l, toks) == SingleArm(src, l, toks, "Comma")

(***************************************************************************)
(* The '=' arm: tokens.last().unwrap() panics on an empty token list;      *)
(* a TypeAssignment is popped and replaced by UnTypedAssignment ":=";      *)
(* after any other token a LetAssignment is pushed.                        *)
(***************************************************************************)
\* a slip: looks for a TypeAssignment anywhere in the list, not at its end
EqualsArmAnyColon(src, l, toks) ==
    IF toks = <<>>
    THEN Outcome(l, toks, Panicked)
    ELSE IF \E i \in 1..Len(toks) : toks[i].kind = "TypeAssignment"
         THEN Outcome(next(src, l),
                      Append(Front(toks), Token("UnTypedAssignment", << ":", "=" >>)),
                      NoErr)
         ELSE Outcome(next(src, l),
                      Append(toks, Token("LetAssignment", << current_char(src, l) >>)),
                      NoErr)

\* a variant: a bare operator before the '=' is merged as well
EqualsArmMergesOperators(src, l, toks) ==
    IF toks = <<>>
    THEN Outcome(l, toks, Panicked)
    ELSE IF Last(toks).kind = "TypeAssignment"
         THEN Outcome(next(src, l),
                      Append(Front(toks), Token("UnTypedAssignment", << ":", "=" >>)),
                      NoErr)
         ELSE IF Last(toks).kind \in { "Plus", "Minus", "Multiply", "Divide", "Modulo" }
         THEN LET k == Last(toks).kind
                  short == CASE k = "Plus"     -> "ShortIncrement"
                             [] k = "Minus"    -> "ShortDecrement"
                             [] k = "Multiply" -> "ShortMultiply"
                             [] k = "Divide"   -> "ShortDivide"
                             [] k = "Modulo"   -> "ShortModulo"
              IN  Outcome(next(src, l),
                          Append(Front(toks),
                                 Token(short, Last(toks).literal \o << "=" >>)),
                          NoErr)
         ELSE Outcome(next(src, l),
                      Append(toks, Token("LetAssignment", << current_char(src, l) >>)),
                      NoErr)

\* a slip: the merge also takes the token before the colon
EqualsArmPopsTwo(src, l, toks) ==
    IF toks = <<>>
    THEN Outcome(l, toks, Panicked)
    ELSE IF Last(toks).kind = "TypeAssignment"
         THEN Outcome(next(src, l),
                      Append(Front(Front(toks)),
                             Token("UnTypedAssignment", << ":", "=" >>)),
                      NoErr)
         ELSE Outcome(next(src, l),
                      Append(toks, Token("LetAssignment", << current_char(src, l) >>)),
                      NoErr)

EqualsArm(src, l, toks) ==
    IF toks = <<>>
    THEN Outcome(l, toks, Panicked)
    ELSE IF Last(toks).kind = "TypeAssignment"
         THEN Outcome(next(src, l),
                      Append(Front(toks), Token("UnTypedAssignment", << ":", "=" >>)),
                      NoErr)
         ELSE Outcome(next(src, l),
                      Append(toks, Token("LetAssignment", << current_char(src, l) >>)),
                      NoErr)

(***************************************************************************)
(* The quote arm.  StringLoop is the `while let Some(next)` loop, from the *)
(* location l with the buffer buf, for the opening quote q.                *)
(***************************************************************************)
Escaped(c) ==
    CASE c = "n"  -> "\n"
      [] c = "t"  -> "\t"
      [] c = "r"  -> "CR"
      [] c = "0"  -> "NUL"
      [] c = "\"" -> "\""
      [] c = "'"  -> "'"
      [] c = "\\" -> "\\"

EscapeChars == { "n", "t", "r", "0", "\"", "'", "\\" }

RECURSIVE StringLoop(_, _, _, _)
StringLoop(src, l, q, buf) ==
    LET c == current_char(src, l) IN
    IF c = None
    THEN [ loc |-> l, buffer |-> buf, found_close |-> FALSE, err |-> NoErr ]
    ELSE IF c = q
    THEN [ loc |-> l, buffer |-> buf, found_close |-> TRUE, err |-> NoErr ]
    ELSE IF c = "\\"
    THEN LET l1 == next(src, l)
             e  == current_char(src, l1)
         IN  IF e = None
             THEN StringLoop(src, next(src, l1), q, buf)
             ELSE IF e \in EscapeChars
             THEN StringLoop(src, next(src, l1), q, Append(buf, Escaped(e)))
             ELSE IF e = "\n"
             THEN StringLoop(src, next(src, next(src, l1)), q, buf)
             ELSE [ loc |-> next(src, l1), buffer |-> buf, found_close |-> FALSE,
                    err |-> Err("InvalidEscapeSequence", e) ]
    ELSE StringLoop(src, next(src, l), q, Append(buf, c))

QuoteArm(src, l, toks) ==
    LET r == StringLoop(src, next(src, l), current_char(src, l), <<>>) IN
    IF r.err # NoErr
    THEN Outcome(r.loc, toks, r.err)
    ELSE IF ~r.found_close
    THEN Outcome(r.loc, toks, Err("UnexpectedEOF", None))
    ELSE Outcome(next(src, r.loc), Append(toks, Token("String", r.buffer)), NoErr)

(***************************************************************************)
(* The identifier arm and Lexer::identify.                                 *)
(***************************************************************************)
\* a slip: the keywords are compared with the buffer as written
identifyCaseSensitive(buffer) ==
    CASE buffer = << "l", "e", "t" >>                -> Token("Assign", buffer)
      [] buffer = << "f", "u", "n", "c" >>           -> Token("Function", buffer)
      [] buffer = << "r", "e", "t", "u", "r", "n" >> -> Token("Return", buffer)
      [] buffer = << "i", "m", "p", "o", "r", "t" >> -> Token("Import", buffer)
      [] OTHER                                       -> Token("Identifier", buffer)

\* a slip: a keyword at the front of the buffer decides the kind
identifyByPrefix(buffer) ==
    LET buffer_copied == to_lowercase(buffer)
        StartsWith(w) == Len(buffer_copied) >= Len(w)
                         /\ SubSeq(buffer_copied, 1, Len(w)) = w
    IN  CASE StartsWith(<< "l", "e", "t" >>)                -> Token("Assign", buffer)
          [] StartsWith(<< "f", "u", "n", "c" >>)           -> Token("Function", buffer)
          [] StartsWith(<< "r", "e", "t", "u", "r", "n" >>) -> Token("Return", buffer)
          [] StartsWith(<< "i", "m", "p", "o", "r", "t" >>) -> Token("Import", buffer)
          [] OTHER                                          -> Token("Identifier", buffer)

identify(buffer) ==
    LET buffer_copied == to_lowercase(buffer) IN
    CASE buffer_copied = << "l", "e", "t" >>                -> Token("Assign", buffer)
      [] buffer_copied = << "f", "u", "n", "c" >>           -> Token("Function", buffer)
      [] buffer_copied = << "r", "e", "t", "u", "r", "n" >> -> Token("Return", buffer)
      [] buffer_copied = << "i", "m", "p", "o", "r", "t" >> -> Token("Import", buffer)
      [] OTHER                                              -> Token("Identifier", buffer)

RECURSIVE IdentLoop(_, _, _)
IdentLoop(src, l, buf) ==
    LET c == current_char(src, l) IN
    IF c # None /\ (is_alphanumeric(c) \/ c = "_")
    THEN IdentLoop(src, next(src, l), Append(buf, c))
    ELSE [ loc |-> l, buffer |-> buf ]

IdentifierArm(src, l, toks) ==
    LET r == IdentLoop(src, l, <<>>) IN
    Outcome(r.loc, Append(toks, identify(r.buffer)), NoErr)

(***************************************************************************)
(* The numeric arm.  buffer.replace('_', "").parse::<usize>().unwrap():    *)
(* the parse fails, and unwrap panics, when a character of the stripped    *)
(* buffer is not an ASCII digit or when the value exceeds usize::MAX       *)
(* (64-bit: 18446744073709551615).                                         *)
(***************************************************************************)
DigitSeq == << "0", "1", "2", "3", "4", "5", "6", "7", "8", "9" >>

DigitVal(c) == (CHOOSE i \in 1..10 : DigitSeq[i] = c) - 1

UsizeMaxDigits ==
    << "1", "8", "4", "4", "6", "7", "4", "4", "0", "7",
       "3", "7", "0", "9", "5", "5", "1", "6", "1", "5" >>

RECURSIVE StripUnderscores(_)
StripUnderscores(s) ==
    IF s = <<>> THEN <<>>
    ELSE IF Head(s) = "_" THEN StripUnderscores(Tail(s))
    ELSE << Head(s) >> \o StripUnderscores(Tail(s))

RECURSIVE StripLeadingZeros(_)
StripLeadingZeros(s) ==
    IF Len(s) > 1 /\ Head(s) = "0" THEN StripLeadingZeros(Tail(s)) ELSE s

ExceedsUsize(d) ==
    \/ Len(d) > Len(UsizeMaxDigits)
    \/ /\ Len(d) = Len(UsizeMaxDigits)
       /\ \E i \in 1..Len(d) :
            /\ DigitVal(d[i]) > DigitVal(UsizeMaxDigits[i])
            /\ \A j \in 1..(i - 1) : d[j] = UsizeMaxDigits[j]

\* the parsed value as canonical decimal digits, or None when parse is Err
ParseUsize(s) ==
    IF s = <<>> \/ \E i \in 1..Len(s) : s[i] \notin AsciiDigits
    THEN None
    ELSE LET d == StripLeadingZeros(s) IN
         IF ExceedsUsize(d) THEN None ELSE d

RECURSIVE NumberLoop(_, _, _)
NumberLoop(src, l, buf) ==
    LET c == current_char(src, l) IN
    IF c # None /\ (is_numeric(c) \/ c = "_")
    THEN NumberLoop(src, next(src, l), Append(buf, c))
    ELSE [ loc |-> l, buffer |-> buf ]

\* a slip: a number that runs into a name is reported as a bad identifier
NumberArmRejectsName(src, l, toks) ==
    LET r   == NumberLoop(src, next(src, l), << current_char(src, l) >>)
        num == ParseUsize(StripUnderscores(r.buffer))
        c   == current_char(src, r.loc)
    IN  IF num = None
        THEN Outcome(r.loc, toks, Panicked)
        ELSE IF c \in AsciiLetters
        THEN Outcome(r.loc, toks, Err("InvalidIdentifier", c))
        ELSE Outcome(r.loc, Append(toks, NumberToken(num, r.buffer)), NoErr)

NumberArm(src, l, toks) ==
    LET r   == NumberLoop(src, next(src, l), << current_char(src, l) >>)
        num == ParseUsize(StripUnderscores(r.buffer))
    IN  IF num = None
        THEN Outcome(r.loc, toks, Panicked)
        ELSE Outcome(r.loc, Append(toks, NumberToken(num, r.buffer)), NoErr)

(***************************************************************************)
(* The '+', '-', '*' and '%' arms: the same code with the two kinds and    *)
(* the literal changed.  At the end of input no token is pushed.           *)
(***************************************************************************)
\* a slip: the location is not backed up before the plain operator is pushed
OperatorArmNoBackup(src, l, toks, plain, short) ==
    LET c  == current_char(src, l)
        l1 == next(src, l)
        n  == current_char(src, l1)
    IN  IF n = None
        THEN Outcome(next(src, l1), toks, NoErr)
        ELSE IF n = "="
        THEN Outcome(next(src, l1), Append(toks, Token(short, << c, "=" >>)), NoErr)
        ELSE Outcome(next(src, l1), Append(toks, Token(plain, << c >>)), NoErr)

OperatorArm(src, l, toks, plain, short) ==
    LET c  == current_char(src, l)
        l1 == next(src, l)
        n  == current_char(src, l1)
    IN  IF n = None
        THEN Outcome(next(src, l1), toks, NoErr)
        ELSE IF n = "="
        THEN Outcome(next(src, l1), Append(toks, Token(short, << c, "=" >>)), NoErr)
        ELSE Outcome(next(src, prev(src, l1)), Append(toks, Token(plain, << c >>)), NoErr)

PlusArm(src, l, toks) == OperatorArm(src, l, toks, "Plus", "ShortIncrement")

MinusArm(src, l, toks) == OperatorArm(src, l, toks, "Minus", "ShortDecrement")

MultiplyArm(src, l, toks) == OperatorArm(src, l, toks, "Multiply", "ShortMultiply")

ModuloArm(src, l, toks) == OperatorArm(src, l, toks, "Modulo", "ShortModulo")

(***************************************************************************)
(* The '/' arm: a line comment, a block comment, "/=" or a division.       *)
(***************************************************************************)
\* a slip: the comment does not stop at the end of its line
RECURSIVE LineCommentLoopToEnd(_, _)
LineCommentLoopToEnd(src, l) ==
    LET c == current_char(src, l) IN
    IF c = None THEN l ELSE LineCommentLoopToEnd(src, next(src, l))

RECURSIVE LineCommentLoop(_, _)
LineCommentLoop(src, l) ==
    LET c == current_char(src, l) IN
    IF c = None \/ c = "\n" THEN l ELSE LineCommentLoop(src, next(src, l))

\* entered with l at the '*' of the opening "/*"
RECURSIVE BlockCommentLoop(_, _)
BlockCommentLoop(src, l) ==
    LET c == current_char(src, l) IN
    IF c = None
    THEN [ loc |-> l, found_close |-> FALSE ]
    ELSE IF c = "*"
    THEN LET l1 == next(src, l) IN
         IF current_char(src, l1) = "/"
         THEN [ loc |-> l1, found_close |-> TRUE ]
         ELSE BlockCommentLoop(src, next(src, l1))
    ELSE BlockCommentLoop(src, next(src, l))

SlashArm(src, l, toks) ==
    LET c  == current_char(src, l)
        l1 == next(src, l)
        n  == current_char(src, l1)
    IN  IF n = None
        THEN Outcome(next(src, l1), toks, NoErr)
        ELSE IF n = "/"
        THEN Outcome(next(src, LineCommentLoop(src, l1)), toks, NoErr)
        ELSE IF n = "*"
        THEN LET r == BlockCommentLoop(src, l1) IN
             IF r.found_close
             THEN Outcome(next(src, r.loc), toks, NoErr)
             ELSE Outcome(r.loc, toks, Err("UnexpectedEOF", None))
        ELSE IF n = "="
        THEN Outcome(next(src, l1), Append(toks, Token("ShortDivide", << "/", "=" >>)), NoErr)
        ELSE Outcome(next(src, prev(src, l1)), Append(toks, Token("Divide", << c >>)), NoErr)

(***************************************************************************)
(* Whitespace is skipped; any other character is an error, returned after  *)
(* the location has advanced over it.                                      *)
(***************************************************************************)
WhitespaceArm(src, l, toks) == Outcome(next(src, l), toks, NoErr)

\* a slip: the character is passed over and the scan goes on
InvalidArmSkips(src, l, toks) == Outcome(next(src, l), toks, NoErr)

InvalidArm(src, l, toks) ==
    Outcome(next(src, l), toks, Err("InvalidCharacter", current_char(src, l)))

(***************************************************************************)
(* `match current`: the arm a character selects, in the order of the arms. *)
(***************************************************************************)
ArmOf(c) ==
    CASE c = ":" -> "colon"
      [] c = "=" -> "equals"
      [] c = ";" -> "semicolon"
      [] c \in { "'", "\"" } -> "quote"
      [] c = "_" \/ c \in AsciiLetters -> "identifier"
      [] is_numeric(c) -> "number"
      [] c = "+" -> "plus"
      [] c = "-" -> "minus"
      [] c = "*" -> "multiply"
      [] c = "%" -> "modulo"
      [] c = "/" -> "slash"
      [] c = "(" -> "open_paren"
      [] c = ")" -> "close_paren"
      [] c = "{" -> "open_brace"
      [] c = "}" -> "close_brace"
      [] c = "[" -> "open_bracket"
      [] c = "]" -> "close_bracket"
      [] c = "," -> "comma"
      [] is_whitespace(c) -> "whitespace"
      [] OTHER -> "invalid"

ArmStep(a, src, l, toks) ==
    CASE a = "colon"         -> ColonArm(src, l, toks)
      [] a = "equals"        -> EqualsArm(src, l, toks)
      [] a = "semicolon"     -> SemicolonArm(src, l, toks)
      [] a = "quote"         -> QuoteArm(src, l, toks)
      [] a = "identifier"    -> IdentifierArm(src, l, toks)
      [] a = "number"        -> NumberArm(src, l, toks)
      [] a = "plus"          -> PlusArm(src, l, toks)
      [] a = "minus"         -> MinusArm(src, l, toks)
      [] a = "multiply"      -> MultiplyArm(src, l, toks)
      [] a = "modulo"        -> ModuloArm(src, l, toks)
      [] a = "slash"         -> SlashArm(src, l, toks)
      [] a = "open_paren"    -> OpenParenArm(src, l, toks)
      [] a = "close_paren"   -> CloseParenArm(src, l, toks)
      [] a = "open_brace"    -> OpenBraceArm(src, l, toks)
      [] a = "close_brace"   -> CloseBraceArm(src, l, toks)
      [] a = "open_bracket"  -> OpenBracketArm(src, l, toks)
      [] a = "close_bracket" -> CloseBracketArm(src, l, toks)
      [] a = "comma"         -> CommaArm(src, l, toks)
      [] a = "whitespace"    -> WhitespaceArm(src, l, toks)
      [] a = "invalid"       -> InvalidArm(src, l, toks)

(***************************************************************************)
(* Lexer::lex as a function: the main loop run from the location l with    *)
(* the token list toks, and a whole call on a freshly constructed Lexer.   *)
(***************************************************************************)
Ok(toks) == [ tag |-> "Ok", ch |-> None, tokens |-> toks ]

Failed(e) == [ tag |-> e.tag, ch |-> e.ch, tokens |-> <<>> ]

RECURSIVE LexLoop(_, _, _)
LexLoop(src, l, toks) ==
    IF ~(Len(src) > l.index)
    THEN [ result |-> Ok(toks), loc |-> l ]
    ELSE LET out == ArmStep(ArmOf(current_char(src, l)), src, l, toks) IN
         IF out.err = NoErr
         THEN LexLoop(src, out.loc, out.tokens)
         ELSE [ result |-> Failed(out.err), loc |-> out.loc ]

lex(src) == LexLoop(src, LocationNew(1, 0), <<>>)

(***************************************************************************)
(* The inputs.  Lexer::lex_from_string takes any string: the model lexes   *)
(* every string up to a bounded length over several small alphabets, the   *)
(* inputs of tests/lexer_tests.rs, every spelling of the keywords, and a   *)
(* few inputs with long numbers and characters that are not ASCII.         *)
(***************************************************************************)
SeqsUpTo(A, n) == UNION { [ 1..k -> A ] : k \in 0..n }

GeneralAlphabet ==
    { ":", "=", ";", " ", "\n", "+", "/", "*", "\"", "\\", "x", "1", "_", "#" }

CommentAlphabet == { ":", "=", "/", "*" }

StringAlphabet == { "\"", "'", "\\", "\n", "q" }

OperatorAlphabet == { "+", "-", "*", "/", "%", "=", " ", "\n", "1" }

KeywordAlphabet == { "l", "e", "t", "L", "E", "_" }

UpperChar(c) ==
    IF c \in Range(LowerLetters)
    THEN UpperLetters[CHOOSE i \in 1..26 : LowerLetters[i] = c]
    ELSE c

Spellings(word) ==
    { [ i \in 1..Len(word) |-> IF i \in S THEN UpperChar(word[i]) ELSE word[i] ] :
        S \in SUBSET (1..Len(word)) }

\* a string holding one escape, for every character and both quotes
EscapeInputs ==
    { << q, "\\", e, q >> :
        q \in { "'", "\"" },
        e \in Range(LowerLetters) \cup AsciiDigits \cup { "\"", "'", "\\", "\n", " " } }

LineCommentAlphabet == { "/", "\n", "x", ":", "=" }

\* numbers at and past usize::MAX, digits that are not ASCII, leading zeros,
\* names with a character that is not ASCII
ExtraInputs ==
    { UsizeMaxDigits,
      << "1", "8", "4", "4", "6", "7", "4", "4", "0", "7",
         "3", "7", "0", "9", "5", "5", "1", "6", "1", "6" >>,
      << "9", "9", "9", "9", "9", "9", "9", "9", "9", "9",
         "9", "9", "9", "9", "9", "9", "9", "9", "9", "9" >>,
      << "0", "0", "7" >>,
      << "4", "_", "2", " ", "x" >>,
      << "ARABIC3" >>,
      << "1", "ARABIC3" >>,
      << "1", "SUP2" >>,
      << "x", "E_ACUTE", "1", " ", "y" >>,
      << "E_ACUTE" >>,
      << "l", "e", "t", "x", " ", "r", "e", "t", "u", "r", "n", "s" >>,
      << "x", "\n", "y", " ", "#", "z" >> }

KeywordInputs ==
    Spellings(<< "l", "e", "t" >>) \cup Spellings(<< "f", "u", "n", "c" >>)
        \cup Spellings(<< "r", "e", "t", "u", "r", "n" >>)
        \cup Spellings(<< "i", "m", "p", "o", "r", "t" >>)

TestInputs ==
    {
      << ":", "=" >>,
      << ":", " ", "=" >>,
      << ":", " ", "u", "3", "2", " ", "=" >>,
      << "_" >>,
      << "_", "_", "f", "o", "o", "_", "_", "b", "a", "r", "_", "_",
         "b", "a", "z", "_", "_", "_", "_" >>,
      << "l", "e", "t", " ", "_", "_", "f", "o", "o", "_", "_", "b",
         "a", "r", "_", "_", "b", "a", "z", "_", "_", "_", "_", " ",
         ":", " ", "u", "3", "2", " ", "=", " ", "1", "2", "3", "4",
         "5", "6", ";" >>,
      << "l", "e", "t", " ", "x", " ", ":", " ", "=", " ", "\"", "h",
         "e", "l", "l", "o", " ", "w", "o", "r", "l", "d", "\"", ";" >>,
      << "'", "D", "o", "n", "\\", "'", "t", "'" >>,
      << "\"", "\\", "\"", "h", "e", "l", "l", "o", "\\", "\"", "\"" >>,
      << "\"", "H", "e", "l", "l", "o", ",", " ", "'", "w", "o", "r",
         "l", "d", "!", "'", "\"" >>,
      << "'", "H", "e", "l", "l", "o", ",", " ", "\"", "w", "o", "r",
         "l", "d", "!", "\"", "'" >>,
      << "\"", "\\", "\\", "h", "e", "l", "l", "o", "\\", "\\", "\"" >>,
      << "1", "2", "3" >>,
      << "1", "_", "0", "0", "0" >>,
      << "x", " ", "+", "=", " ", "5", ";" >>,
      << "x", " ", "-", "=", " ", "5", ";" >>,
      << "L", "E", "T", " ", "x", " ", ":", " ", "=", " ", "1", "2",
         "3", ";" >>,
      << "x", "1", "2", "3" >>,
      << "\"", "h", "e", "l", "l", "o", " ", "\\" >>,
      << "\"", "h", "e", "l", "l", "o" >>,
      << "h", "e", "l", "l", "o", "\"" >>,
      << "1", "_", "_", "_", "_" >>,
      << "x", " ", ":", "=", " ", "1", "2", "3", ";", " ", "/", "/",
         " ", "T", "h", "i", "s", " ", "i", "s", " ", "a", " ", "c",
         "o", "m", "m", "e", "n", "t" >>,
      << "l", "e", "t", " ", "_", "_", "f", "o", "o", "_", "_", "b",
         "a", "r", "_", "_", "b", "a", "z", "_", "_", "_", "_", " ",
         ":", " ", "/", "*", " ", "u", "3", "2", " ", "*", "/", " ",
         "=", " ", "1", "2", "3", ";" >>,
      << "l", "e", "t", " ", "_", "_", "f", "o", "o", "_", "_", "b",
         "a", "r", "_", "_", "b", "a", "z", "_", "_", "_", "_", " ",
         ":", " ", "/", "*", " ", "u", "3", "2", " ", "=", " ", "1",
         "2", "3", ";" >>,
      << "1", "+", "2", "-", "3", "*", "4", "/", "5", "%", "6", "+",
         "=", "7", "-", "=", "8", "*", "=", "9", "/", "=", "1", "%",
         "=" >>,
      << "l", "e", "t", " ", "x", ":", "u", "3", "2", "=", "5", ";" >>,
      << "(", ")", "{", "}", "[", "]" >>,
      << "f", "u", "n", "c", " ", "m", "a", "i", "n", "(", ")", " ",
         ":", "=", " ", "{", "}" >>,
      << "F", "u", "N", "c", " ", "m", "a", "i", "n", "(", ")", " ",
         ":", "=", " ", "{", "}" >>,
      << "f", "u", "n", "c", " ", "m", "a", "i", "n", "(", ")", " ",
         ":", " ", "u", "3", "2", " ", "=", " ", "{", "}" >>,
      << "f", "u", "n", "c", " ", "m", "a", "i", "n", "(", ")", " ",
         ":", " ", "u", "3", "2", " ", "=", " ", "{", " ", "r", "e",
         "t", "u", "r", "n", " ", "5", ";", " ", "}" >>,
      << "i", "m", "p", "o", "r", "t", " ", "\"", "t", "e", "s", "t",
         "\"", ";" >>,
      << "f", "u", "n", "c", " ", "m", "a", "i", "n", "(", "a", ":",
         " ", "u", "3", "2", ",", " ", "b", ":", " ", "u", "3", "2",
         ")", " ", ":", " ", "u", "3", "2", " ", "=", " ", "{", " ",
         "r", "e", "t", "u", "r", "n", " ", "5", ";", " ", "}" >>
    }

Inputs ==
    SeqsUpTo(GeneralAlphabet, MaxLen) \cup SeqsUpTo(CommentAlphabet, MaxCommentLen)
        \cup SeqsUpTo(StringAlphabet, MaxStringLen)
        \cup SeqsUpTo(OperatorAlphabet, MaxOpLen)
        \cup SeqsUpTo(KeywordAlphabet, MaxKeywordLen)
        \cup SeqsUpTo(LineCommentAlphabet, MaxLineCommentLen)
        \cup ExtraInputs
        \cup EscapeInputs \cup KeywordInputs \cup TestInputs

(***************************************************************************)
(* The state machine.  Init is the Lexer that lex_from_string returns.     *)
(***************************************************************************)
lex_from_string(src) ==
    /\ source = src
    /\ current = None
    /\ loc = LocationNew(1, 0)

Init ==
    /\ \E src \in Inputs : lex_from_string(src)
    /\ tokens = <<>>
    /\ pc = "idle"
    /\ results = <<>>
    /\ calls = 0
    /\ arm = "none"
    /\ start = 0
    /\ before = <<>>

\* lex is called: `let mut tokens = vec![]`
CallLex ==
    /\ pc = "idle"
    /\ calls < MaxCalls
    /\ calls' = calls + 1
    /\ tokens' = <<>>
    /\ pc' = "loop"
    /\ arm' = "none"
    /\ start' = loc.index
    /\ before' = <<>>
    /\ UNCHANGED << source, loc, current, results >>

\* one iteration of `while self.source.len() > self.loc.index`, through arm a
Iteration(a, out) ==
    /\ pc = "loop"
    /\ Len(source) > loc.index
    /\ ArmOf(current_char(source, loc)) = a
    /\ current' = current_char(source, loc)
    /\ arm' = a
    /\ start' = loc.index
    /\ before' = tokens
    /\ loc' = out.loc
    /\ IF out.err = NoErr
       THEN /\ tokens' = out.tokens
            /\ pc' = "loop"
            /\ UNCHANGED results
       ELSE /\ tokens' = <<>>
            /\ pc' = IF out.err = Panicked THEN "panic" ELSE "idle"
            /\ results' = Append(results, Failed(out.err))
    /\ UNCHANGED << source, calls >>

LexColon == Iteration("colon", ColonArm(source, loc, tokens))

LexEquals == Iteration("equals", EqualsArm(source, loc, tokens))

LexSemicolon == Iteration("semicolon", SemicolonArm(source, loc, tokens))

LexQuote == Iteration("quote", QuoteArm(source, loc, tokens))

LexIdentifier == Iteration("identifier", IdentifierArm(source, loc, tokens))

LexNumber == Iteration("number", NumberArm(source, loc, tokens))

LexPlus == Iteration("plus", PlusArm(source, loc, tokens))

LexMinus == Iteration("minus", MinusArm(source, loc, tokens))

LexMultiply == Iteration("multiply", MultiplyArm(source, loc, tokens))

LexModulo == Iteration("modulo", ModuloArm(source, loc, tokens))

LexSlash == Iteration("slash", SlashArm(source, loc, tokens))

LexOpenParen == Iteration("open_paren", OpenParenArm(source, loc, tokens))

LexCloseParen == Iteration("close_paren", CloseParenArm(source, loc, tokens))

LexOpenBrace == Iteration("open_brace", OpenBraceArm(source, loc, tokens))

LexCloseBrace == Iteration("close_brace", CloseBraceArm(source, loc, tokens))

LexOpenBracket == Iteration("open_bracket", OpenBracketArm(source, loc, tokens))

LexCloseBracket == Iteration("close_bracket", CloseBracketArm(source, loc, tokens))

LexComma == Iteration("comma", CommaArm(source, loc, tokens))

LexWhitespace == Iteration("whitespace", WhitespaceArm(source, loc, tokens))

LexInvalid == Iteration("invalid", InvalidArm(source, loc, tokens))

\* the loop condition fails: Ok(tokens)
ReturnOk ==
    /\ pc = "loop"
    /\ ~(Len(source) > loc.index)
    /\ results' = Append(results, Ok(tokens))
    /\ tokens' = <<>>
    /\ pc' = "idle"
    /\ UNCHANGED << source, loc, current, calls, arm, start, before >>

Next ==
    \/ CallLex
    \/ LexColon
    \/ LexEquals
    \/ LexSemicolon
    \/ LexQuote
    \/ LexIdentifier
    \/ LexNumber
    \/ LexPlus
    \/ LexMinus
    \/ LexMultiply
    \/ LexModulo
    \/ LexSlash
    \/ LexOpenParen
    \/ LexCloseParen
    \/ LexOpenBrace
    \/ LexCloseBrace
    \/ LexOpenBracket
    \/ LexCloseBracket
    \/ LexComma
    \/ LexWhitespace
    \/ LexInvalid
    \/ ReturnOk

Spec == Init /\ [][Next]_vars

(***************************************************************************)
(* Notions the properties are stated with, defined on the source text      *)
(* alone.  Positions are 1-based indices into the text.                    *)
(***************************************************************************)
Suffix(s, k) == SubSeq(s, k, Len(s))

\* a "*/" begins at position k
ClosesAt(s, k) == k >= 1 /\ k + 1 <= Len(s) /\ s[k] = "*" /\ s[k + 1] = "/"

\* a "/*" begins at position p
OpensAt(s, p) == p >= 1 /\ p + 1 <= Len(s) /\ s[p] = "/" /\ s[p + 1] = "*"

\* the block comment opened at p is closed: a "*/" begins after the opener
HasCloser(s, p) == \E k \in (p + 2)..(Len(s) - 1) : ClosesAt(s, k)

FirstCloser(s, p) ==
    CHOOSE k \in (p + 2)..(Len(s) - 1) :
        ClosesAt(s, k) /\ \A j \in (p + 2)..(k - 1) : ~ClosesAt(s, j)

HasNewline(s) == \E k \in 1..Len(s) : s[k] = "\n"

FirstNewline(s) ==
    CHOOSE k \in 1..Len(s) : s[k] = "\n" /\ \A j \in 1..(k - 1) : s[j] # "\n"

\* s is made of whitespace, line comments ended by their newline, and closed
\* block comments only
RECURSIVE Skippable(_)
Skippable(s) ==
    IF s = <<>> THEN TRUE
    ELSE IF is_whitespace(s[1]) THEN Skippable(Tail(s))
    ELSE IF Len(s) >= 2 /\ s[1] = "/" /\ s[2] = "/"
    THEN HasNewline(s) /\ Skippable(Suffix(s, FirstNewline(s) + 1))
    ELSE IF OpensAt(s, 1)
    THEN HasCloser(s, 1) /\ Skippable(Suffix(s, FirstCloser(s, 1) + 2))
    ELSE FALSE

\* the first call of lex on this Lexer has returned r
FirstResult(r) == Len(results) >= 1 /\ results[1] = r

\* the last iteration of the running call went through arm a and fell
\* through to the loop head
Took(a) == pc = "loop" /\ arm = a

\* the last step was an iteration through arm a, whether it fell through to
\* the loop head, returned an error or panicked
JustRan(a) == arm = a /\ (pc = "loop" \/ Last(results).tag # "Ok")

(***************************************************************************)
(* C1.  An input made of a colon, then skipped characters (whitespace and  *)
(* comments), then an equals sign lexes to exactly one token, the          *)
(* UnTypedAssignment ":=".                                                 *)
(***************************************************************************)
C1_ColonSkipEquals ==
    /\ Len(source) >= 2
    /\ source[1] = ":"
    /\ source[Len(source)] = "="
    /\ Skippable(SubSeq(source, 2, Len(source) - 1))

C1_UntypedAssignment ==
    (C1_ColonSkipEquals /\ Len(results) >= 1)
        => results[1] = Ok(<< Token("UnTypedAssignment", << ":", "=" >>) >>)

(***************************************************************************)
(* C2.  The '=' arm merges only into a TypeAssignment that is the last     *)
(* token: after any other last token it pushes LetAssignment "=" and       *)
(* leaves the tokens before it alone; "let x:u32=5;" lexes to Assign,      *)
(* Identifier, TypeAssignment, Identifier, LetAssignment, Number(5),       *)
(* Semicolon; no token of kind TypedAssignment is ever produced.           *)
(***************************************************************************)
ReadmeExample ==
    << "l", "e", "t", " ", "x", ":", "u", "3", "2", "=", "5", ";" >>

ReadmeTokens ==
    << Token("Assign", << "l", "e", "t" >>),
       Token("Identifier", << "x" >>),
       Token("TypeAssignment", << ":" >>),
       Token("Identifier", << "u", "3", "2" >>),
       Token("LetAssignment", << "=" >>),
       NumberToken(<< "5" >>, << "5" >>),
       Token("Semicolon", << ";" >>) >>

C2_MergeOnlyAfterColon ==
    /\ (Took("equals") /\ before # <<>>)
         => IF Last(before).kind = "TypeAssignment"
            THEN tokens = Append(Front(before), Token("UnTypedAssignment", << ":", "=" >>))
            ELSE tokens = Append(before, Token("LetAssignment", << "=" >>))
    /\ (source = ReadmeExample /\ Len(results) >= 1) => results[1] = Ok(ReadmeTokens)
    /\ \A i \in 1..Len(tokens) : tokens[i].kind # "TypedAssignment"
    /\ \A c \in 1..Len(results) : \A i \in 1..Len(results[c].tokens) :
         results[c].tokens[i].kind # "TypedAssignment"

C2_Witness ==
    /\ Took("equals")
    /\ Len(before) >= 2
    /\ before[Len(before) - 1].kind = "TypeAssignment"
    /\ Last(before).kind = "Identifier"
    /\ Last(tokens).kind = "LetAssignment"

(***************************************************************************)
(* C3.  An equals sign reached with no token emitted yet gives a           *)
(* LetAssignment "=" and the scan goes on.                                 *)
(***************************************************************************)
C3_EqualsFirst ==
    (JustRan("equals") /\ before = <<>>)
        => /\ pc = "loop"
           /\ tokens = << Token("LetAssignment", << "=" >>) >>

(***************************************************************************)
(* C4.  An operator character followed by '=' gives one short-assignment   *)
(* token with the two-character literal, and both characters are consumed; *)
(* followed by any other character (for '/': other than '/' and '*') it    *)
(* gives the plain operator token, and the next iteration starts at the    *)
(* following character.                                                    *)
(***************************************************************************)
OperatorArms == { "plus", "minus", "multiply", "modulo", "slash" }

PlainKind(c) ==
    CASE c = "+" -> "Plus"
      [] c = "-" -> "Minus"
      [] c = "*" -> "Multiply"
      [] c = "/" -> "Divide"
      [] c = "%" -> "Modulo"

ShortKind(c) ==
    CASE c = "+" -> "ShortIncrement"
      [] c = "-" -> "ShortDecrement"
      [] c = "*" -> "ShortMultiply"
      [] c = "/" -> "ShortDivide"
      [] c = "%" -> "ShortModulo"

C4_OperatorLookahead ==
    (arm \in OperatorArms /\ JustRan(arm) /\ start + 2 <= Len(source))
        => LET c == source[start + 1]
               n == source[start + 2]
           IN  IF n = "="
               THEN /\ pc = "loop"
                    /\ tokens = Append(before, Token(ShortKind(c), << c, "=" >>))
                    /\ loc.index = start + 2
               ELSE \/ c = "/" /\ n \in { "/", "*" }
                    \/ /\ pc = "loop"
                       /\ tokens = Append(before, Token(PlainKind(c), << c >>))
                       /\ loc.index = start + 1

C4_Witness ==
    /\ Took("multiply")
    /\ start + 2 <= Len(source)
    /\ source[start + 2] = "\n"
    /\ Last(tokens) = Token("Multiply", << "*" >>)
    /\ loc.index = start + 1

(***************************************************************************)
(* C5.  An operator character that is the last character of the input      *)
(* still gives its plain operator token.                                   *)
(***************************************************************************)
C5_TrailingOperator ==
    (arm \in OperatorArms /\ JustRan(arm) /\ start + 1 = Len(source))
        => /\ pc = "loop"
           /\ tokens = Append(before, Token(PlainKind(source[start + 1]),
                                            << source[start + 1] >>))

(***************************************************************************)
(* C6.  As claimed: an equals sign reached when the last token is a bare   *)
(* arithmetic operator replaces that token by the short-assignment token.  *)
(* As amended: it leaves the operator token in place and pushes a separate *)
(* LetAssignment "="; only an '=' immediately after the operator character *)
(* gives a short-assignment token.                                         *)
(***************************************************************************)
PlainKinds == { "Plus", "Minus", "Multiply", "Divide", "Modulo" }

C6_AfterOperator ==
    /\ Took("equals")
    /\ before # <<>>
    /\ Last(before).kind \in PlainKinds

C6_MergedIntoShort ==
    C6_AfterOperator
        => LET c == Last(before).literal[1] IN
           tokens = Append(Front(before), Token(ShortKind(c), << c, "=" >>))

C6_SeparateLetAssignment ==
    C6_AfterOperator
        => /\ tokens = Append(before, Token("LetAssignment", << "=" >>))
           /\ \A i \in 1..Len(tokens) :
                tokens[i].kind \in { "ShortIncrement", "ShortDecrement", "ShortMultiply",
                                     "ShortDivide", "ShortModulo" }
                    => tokens[i].literal \in
                         { << source[k], source[k + 1] >> : k \in 1..(Len(source) - 1) }

C6_Witness ==
    /\ C6_AfterOperator
    /\ Last(before) = Token("Plus", << "+" >>)
    /\ Last(tokens) = Token("LetAssignment", << "=" >>)

(***************************************************************************)
(* C7.  A string opened by a quote whose text runs to the end of the       *)
(* input before an unescaped occurrence of the same quote (a backslash     *)
(* takes the character after it along, and may itself be the last          *)
(* character) makes lex return Err(UnexpectedEOF), and no String token.    *)
(* StringScan reads the string's text from position i the way the spec     *)
(* defines strings; a string with an invalid escape is not the property's  *)
(* case.                                                                   *)
(***************************************************************************)
RECURSIVE StringScan(_, _, _)
StringScan(s, i, q) ==
    IF i > Len(s) THEN "eof"
    ELSE IF s[i] = q THEN "closed"
    ELSE IF s[i] = "\\"
    THEN IF i + 1 > Len(s) THEN "eof"
         ELSE IF s[i + 1] \in { "n", "t", "r", "0", "\"", "'", "\\", "\n" }
         THEN StringScan(s, i + 2, q)
         ELSE "invalid"
    ELSE StringScan(s, i + 1, q)

C7_UnterminatedString ==
    (JustRan("quote") /\ StringScan(source, start + 2, source[start + 1]) = "eof")
        => /\ pc = "idle"
           /\ Last(results) = Failed(Err("UnexpectedEOF", None))

(***************************************************************************)
(* C8.  A block comment opened by "/*" with no "*/" beginning after the    *)
(* opener makes lex return Err(UnexpectedEOF); "/*/" is unterminated.      *)
(***************************************************************************)
C8_UnterminatedBlockComment ==
    (JustRan("slash") /\ OpensAt(source, start + 1) /\ ~HasCloser(source, start + 1))
        => /\ pc = "idle"
           /\ Last(results) = Failed(Err("UnexpectedEOF", None))

(***************************************************************************)
(* C9.  A closed block comment is consumed through its first closing "*/", *)
(* pushes no token, and the call returns what it returns on the text with  *)
(* the comment replaced by one space.                                      *)
(***************************************************************************)
C9_ClosedBlockComment ==
    (JustRan("slash") /\ OpensAt(source, start + 1) /\ HasCloser(source, start + 1))
        => LET k == FirstCloser(source, start + 1) IN
           /\ pc = "loop"
           /\ tokens = before
           /\ loc.index = k + 1
           /\ calls = 1
                => LexLoop(source, loc, tokens).result
                     = lex(SubSeq(source, 1, start) \o << " " >> \o Suffix(source, k + 2)).result

(***************************************************************************)
(* C10.  The identifier arm pushes one token for the maximal run of        *)
(* alphanumeric and underscore characters at the cursor: its literal is    *)
(* the run as written, and its kind is Assign, Function, Return or Import  *)
(* when the lower-cased run is let, func, return or import, and Identifier *)
(* for every other run.                                                    *)
(***************************************************************************)
IdentChar(c) == is_alphanumeric(c) \/ c = "_"

\* the position of the last character of the maximal run that begins at p
RunEnd(s, p) ==
    CHOOSE e \in p..Len(s) :
        /\ \A j \in p..e : IdentChar(s[j])
        /\ e = Len(s) \/ ~IdentChar(s[e + 1])

KeywordKind(w) ==
    CASE w = << "l", "e", "t" >>                -> "Assign"
      [] w = << "f", "u", "n", "c" >>           -> "Function"
      [] w = << "r", "e", "t", "u", "r", "n" >> -> "Return"
      [] w = << "i", "m", "p", "o", "r", "t" >> -> "Import"
      [] OTHER                                  -> "Identifier"

C10_Keywords ==
    JustRan("identifier")
        => LET e   == RunEnd(source, start + 1)
               run == SubSeq(source, start + 1, e)
           IN  /\ pc = "loop"
               /\ tokens = Append(before, Token(KeywordKind(to_lowercase(run)), run))
               /\ loc.index = e

C10_Witness ==
    /\ Took("identifier")
    /\ Last(tokens) = Token("Function", << "F", "u", "N", "c" >>)

(***************************************************************************)
(* C11.  The numeric arm pushes one Number token for the maximal run of    *)
(* digits and underscores at the cursor: the literal is the run as         *)
(* written, the value is the decimal integer of the run's digits with the  *)
(* underscores left out, and the cursor stops after the run.               *)
(***************************************************************************)
DecimalDigit(c) == c \in AsciiDigits

NumberChar(c) == DecimalDigit(c) \/ c = "_"

\* the position of the last character of the maximal run that begins at p
NumberRunEnd(s, p) ==
    CHOOSE e \in p..Len(s) :
        /\ \A j \in p..e : NumberChar(s[j])
        /\ e = Len(s) \/ ~NumberChar(s[e + 1])

\* the run's digits, underscores left out
RECURSIVE RunDigits(_)
RunDigits(s) ==
    IF s = <<>> THEN <<>>
    ELSE IF Head(s) = "_" THEN RunDigits(Tail(s))
    ELSE << Head(s) >> \o RunDigits(Tail(s))

RunValue(s) == StripLeadingZeros(RunDigits(s))

C11_NumberRun ==
    (JustRan("number") /\ DecimalDigit(source[start + 1]))
        => LET e   == NumberRunEnd(source, start + 1)
               run == SubSeq(source, start + 1, e)
           IN  /\ pc = "loop"
               /\ tokens = Append(before, NumberToken(RunValue(run), run))
               /\ loc.index = e

(***************************************************************************)
(* C12.  A string is closed by the first unescaped occurrence of the quote *)
(* that opened it (the other quote is content): the quote arm pushes one   *)
(* String token whose literal is the content between the two delimiters,   *)
(* and the cursor stops after the closing quote.  StringEnd is the         *)
(* position of the closing quote and StringContent the content, escapes    *)
(* decoded, of a string that StringScan finds closed.                      *)
(***************************************************************************)
Decoded(e) ==
    CASE e = "n"  -> "\n"
      [] e = "t"  -> "\t"
      [] e = "r"  -> "CR"
      [] e = "0"  -> "NUL"
      [] OTHER    -> e

RECURSIVE StringEnd(_, _, _)
StringEnd(s, i, q) ==
    IF s[i] = q THEN i
    ELSE IF s[i] = "\\" THEN StringEnd(s, i + 2, q)
    ELSE StringEnd(s, i + 1, q)

RECURSIVE StringContent(_, _, _)
StringContent(s, i, q) ==
    IF s[i] = q THEN <<>>
    ELSE IF s[i] = "\\"
    THEN IF s[i + 1] = "\n"
         THEN StringContent(s, i + 2, q)
         ELSE << Decoded(s[i + 1]) >> \o StringContent(s, i + 2, q)
    ELSE << s[i] >> \o StringContent(s, i + 1, q)

C12_StringDelimiters ==
    (JustRan("quote") /\ StringScan(source, start + 2, source[start + 1]) = "closed")
        => LET q == source[start + 1] IN
           /\ pc = "loop"
           /\ tokens = Append(before, Token("String", StringContent(source, start + 2, q)))
           /\ loc.index = StringEnd(source, start + 2, q)

(***************************************************************************)
(* C13.  In a string the escapes n, t, r, 0, double quote, single quote    *)
(* and backslash each put their one decoded character in the literal and   *)
(* do not close the string; a backslash before any other character but a   *)
(* newline makes lex return Err(InvalidEscapeSequence) with that           *)
(* character.  InvalidEscape is the character of the first such escape.    *)
(***************************************************************************)
RECURSIVE InvalidEscape(_, _, _)
InvalidEscape(s, i, q) ==
    IF s[i] = "\\"
    THEN IF s[i + 1] \in { "n", "t", "r", "0", "\"", "'", "\\", "\n" }
         THEN InvalidEscape(s, i + 2, q)
         ELSE s[i + 1]
    ELSE InvalidEscape(s, i + 1, q)

\* the number of escapes that decode to a character, up to the closing quote
RECURSIVE DecodingEscapes(_, _, _)
DecodingEscapes(s, i, q) ==
    IF s[i] = q THEN 0
    ELSE IF s[i] = "\\"
    THEN (IF s[i + 1] = "\n" THEN 0 ELSE 1) + DecodingEscapes(s, i + 2, q)
    ELSE DecodingEscapes(s, i + 1, q)

C13_Escapes ==
    JustRan("quote")
        => LET q    == source[start + 1]
               scan == StringScan(source, start + 2, q)
           IN  /\ scan = "invalid"
                    => /\ pc = "idle"
                       /\ Last(results) =
                            Failed(Err("InvalidEscapeSequence",
                                       InvalidEscape(source, start + 2, q)))
               /\ (scan = "closed" /\ DecodingEscapes(source, start + 2, q) > 0)
                    => /\ pc = "loop"
                       /\ Last(tokens).kind = "String"
                       /\ Last(tokens).literal = StringContent(source, start + 2, q)

(***************************************************************************)
(* C14.  A backslash right before a newline takes exactly these two        *)
(* characters out of the content: the literal of a closed string with      *)
(* such a pair is the content of every other character, and the string     *)
(* ends at its first unescaped closing quote, the one right after the      *)
(* newline included.                                                       *)
(***************************************************************************)
RECURSIVE HasContinuation(_, _, _)
HasContinuation(s, i, q) ==
    IF s[i] = q THEN FALSE
    ELSE IF s[i] = "\\"
    THEN s[i + 1] = "\n" \/ HasContinuation(s, i + 2, q)
    ELSE HasContinuation(s, i + 1, q)

C14_LineContinuation ==
    LET q == source[start + 1] IN
    ( /\ JustRan("quote")
      /\ StringScan(source, start + 2, q) = "closed"
      /\ HasContinuation(source, start + 2, q) )
        => /\ pc = "loop"
           /\ Len(tokens) = Len(before) + 1
           /\ Last(tokens) = Token("String", StringContent(source, start + 2, q))
           /\ loc.index = StringEnd(source, start + 2, q)

(***************************************************************************)
(* C15.  On an input that lex accepts, the literals of the tokens, put     *)
(* together in order, are the source without its whitespace and comments.  *)
(* Stated turn by turn of the main loop: a turn over whitespace or a       *)
(* comment leaves the literals as they were, and every other turn adds to  *)
(* them exactly the characters it consumed.                                *)
(***************************************************************************)
RECURSIVE Literals(_)
Literals(toks) ==
    IF toks = <<>> THEN <<>> ELSE Head(toks).literal \o Literals(Tail(toks))

\* the characters the last turn of the loop consumed
Consumed == SubSeq(source, start + 1, loc.index)

\* the last turn of the loop began on whitespace or on a comment opener
SkippedTurn ==
    \/ arm = "whitespace"
    \/ /\ arm = "slash"
       /\ start + 2 <= Len(source)
       /\ source[start + 2] \in { "/", "*" }

C15_RoundTrip ==
    ( /\ pc = "loop"
      /\ arm # "none"
      /\ LexLoop(source, loc, tokens).result.tag = "Ok" )
        => Literals(tokens) =
             Literals(before) \o (IF SkippedTurn THEN <<>> ELSE Consumed)

(***************************************************************************)
(* C17.  lex stops at its first error: the turn of the loop that meets a   *)
(* character of no lexical form ends the call with Err(InvalidCharacter),  *)
(* an Err carries none of the tokens pushed before it, and the characters  *)
(* after the point where the call stopped have no part in the result -     *)
(* with any other text in their place the result is the same.  An          *)
(* UnexpectedEOF is returned at the end of the input, where no character   *)
(* follows.                                                                *)
(***************************************************************************)
TailChars == { "x", "#", "'", "\\", "=", "\n" }

Tails ==
    { <<>> } \cup { << c >> : c \in TailChars }
             \cup { << c, d >> : c \in TailChars, d \in TailChars }

ErrTags == { "InvalidCharacter", "InvalidEscapeSequence", "UnexpectedEOF" }

C17_FailFast ==
    /\ JustRan("invalid")
         => /\ pc = "idle"
            /\ Last(results) = Failed(Err("InvalidCharacter", source[start + 1]))
    /\ (pc = "idle" /\ Len(results) = 1 /\ results[1].tag \in ErrTags)
         => /\ results[1].tokens = <<>>
            /\ tokens = <<>>
            /\ IF results[1].tag = "UnexpectedEOF"
               THEN loc.index = Len(source)
               ELSE \A x \in Tails :
                      lex(SubSeq(source, 1, loc.index) \o x).result = results[1]

\* tokens had been pushed, and text follows the point where the call stopped
C17_Witness ==
    /\ pc = "idle"
    /\ Len(results) = 1
    /\ results[1].tag = "InvalidCharacter"
    /\ before # <<>>
    /\ loc.index < Len(source)

(***************************************************************************)
(* C18.  A line comment is consumed through the newline that ends its line *)
(* or, when no newline follows, to the end of the input; it pushes no      *)
(* token and leaves the tokens pushed before it as they were, and the     *)
(* scan goes on as a scan of the following lines alone, begun with the     *)
(* tokens pushed before the comment.                                       *)
(***************************************************************************)
LineCommentAt(s, p) == p + 1 <= Len(s) /\ s[p] = "/" /\ s[p + 1] = "/"

C18_LineComment ==
    (JustRan("slash") /\ LineCommentAt(source, start + 1))
        => LET rest == Suffix(source, start + 1)
               nl   == HasNewline(rest)
               k    == IF nl THEN start + FirstNewline(rest) ELSE Len(source)
           IN  /\ pc = "loop"
               /\ tokens = before
               /\ loc.index = k
               /\ LexLoop(source, loc, tokens).result
                    = LexLoop(Suffix(source, k + 1), LocationNew(1, 0), before).result

\* a token before the comment and one on the line after it
C18_Witness ==
    /\ Took("slash")
    /\ LineCommentAt(source, start + 1)
    /\ before # <<>>
    /\ HasNewline(Suffix(source, start + 1))
    /\ LexLoop(source, loc, tokens).result.tag = "Ok"
    /\ Len(LexLoop(source, loc, tokens).result.tokens) > Len(tokens)

(***************************************************************************)
(* C19.  A run that begins with an ASCII letter or an underscore is one    *)
(* token: the identifier arm pushes exactly one token, its literal is the  *)
(* whole maximal run of alphanumeric and underscore characters, the cursor *)
(* stops on the first character that is not of the run, and a run that is  *)
(* longer than the keyword it begins with is an Identifier.                *)
(***************************************************************************)
Keywords ==
    { << "l", "e", "t" >>, << "f", "u", "n", "c" >>,
      << "r", "e", "t", "u", "r", "n" >>, << "i", "m", "p", "o", "r", "t" >> }

BeginsWithKeyword(w) ==
    \E k \in Keywords : Len(w) > Len(k) /\ SubSeq(w, 1, Len(k)) = k

C19_IdentifierRun ==
    JustRan("identifier")
        => LET e   == RunEnd(source, start + 1)
               run == SubSeq(source, start + 1, e)
           IN  /\ source[start + 1] \in AsciiLetters \cup { "_" }
               /\ pc = "loop"
               /\ Len(tokens) = Len(before) + 1
               /\ Front(tokens) = before
               /\ Last(tokens).literal = run
               /\ loc.index = e
               /\ current_char(source, loc) = None
                    \/ ~IdentChar(current_char(source, loc))
               /\ to_lowercase(run) \notin Keywords
                    => Last(tokens).kind = "Identifier"
               /\ BeginsWithKeyword(to_lowercase(run))
                    => Last(tokens).kind = "Identifier"

C19_Witness ==
    /\ Took("identifier")
    /\ Last(tokens) = Token("Identifier", << "l", "e", "t", "_" >>)

(***************************************************************************)
(* C20.  A character of no lexical form makes lex return                   *)
(* Err(InvalidCharacter) with that character and with the Location of the  *)
(* character itself: its index, its line and its column, not those of the  *)
(* character after it.  The error borrows the Lexer's loc, so the Location *)
(* it carries is loc as the call returns.                                  *)
(***************************************************************************)
\* the 0-based index, 1-based line and 0-based column of position p of s
IndexOf(p) == p - 1

LineOf(s, p) == 1 + Cardinality({ j \in 1..(p - 1) : s[j] = "\n" })

ColumnOf(s, p) ==
    Cardinality({ j \in 1..(p - 1) : \A i \in j..(p - 1) : s[i] # "\n" })

C20_InvalidCharacterLocation ==
    JustRan("invalid")
        => /\ pc = "idle"
           /\ Last(results) = Failed(Err("InvalidCharacter", source[start + 1]))
           /\ loc.index = IndexOf(start + 1)
           /\ loc.line = LineOf(source, start + 1)
           /\ loc.column = ColumnOf(source, start + 1)

(***************************************************************************)
(* Location::advance and Location::retreat on their own: a Location with   *)
(* any counters within the bounds, moved one character at a time while     *)
(* the counters stay within the bounds.  A retreat that would take a usize *)
(* below 0 is not taken.                                                   *)
(***************************************************************************)
LocChars == { "x", "+", "\n" }

Locations ==
    [ line : 1..MaxLine, column : 0..MaxColumn, index : 0..MaxColumn,
      prev_line_length : 0..MaxColumn, current_line_length : 0..MaxColumn ]

LocInit ==
    /\ source = <<>>
    /\ loc \in Locations
    /\ current = None
    /\ tokens = <<>>
    /\ pc = "location"
    /\ results = <<>>
    /\ calls = 0
    /\ arm = "none"
    /\ start = 0
    /\ before = <<>>

Advance(c) ==
    /\ pc = "location"
    /\ loc.index <= MaxColumn
    /\ loc.line <= MaxLine
    /\ loc.column <= MaxColumn
    /\ loc.current_line_length <= MaxColumn
    /\ loc' = advance(loc, c)
    /\ current' = c
    /\ UNCHANGED << source, tokens, pc, results, calls, arm, start, before >>

Retreat(c) ==
    /\ pc = "location"
    /\ loc.index >= 1
    /\ IF c = "\n" THEN loc.line >= 1 ELSE loc.column >= 1
    /\ loc' = retreat(loc, c)
    /\ current' = c
    /\ UNCHANGED << source, tokens, pc, results, calls, arm, start, before >>

LocNext ==
    \/ \E c \in LocChars : Advance(c)
    \/ \E c \in LocChars : Retreat(c)

LocSpec == LocInit /\ [][LocNext]_vars

(***************************************************************************)
(* C21.  retreat is the inverse of advance: from every Location, advance   *)
(* over a character followed by retreat over the same character gives     *)
(* back the line, column, index, prev_line_length and current_line_length  *)
(* the Location had.                                                       *)
(***************************************************************************)
C21_RetreatInvertsAdvance ==
    pc = "location"
        => \A c \in LocChars : retreat(advance(loc, c), c) = loc

(***************************************************************************)
(* C22.  Retreating over a newline gives back the column: a Location that  *)
(* stands at the end of a line of n characters (column n), advanced over   *)
(* the newline and retreated over it, has column n again and its line is   *)
(* the line it had (one less than after the advance).                      *)
(***************************************************************************)
C22_RetreatOverNewline ==
    (pc = "location" /\ loc.column = loc.current_line_length)
        => LET a == advance(loc, "\n")
               r == retreat(a, "\n")
           IN  /\ r.column = loc.column
               /\ r.line = a.line - 1

(***************************************************************************)
(* C23.  At every start of a turn of the main loop and at every return of  *)
(* lex the line and the column agree with the cursor: line is 1 plus the   *)
(* number of newlines before the cursor, and column is the number of       *)
(* characters between the last of these newlines and the cursor.           *)
(***************************************************************************)
C23_PositionConsistent ==
    pc \in { "loop", "idle" }
        => /\ loc.line = LineOf(source, loc.index + 1)
           /\ loc.column = ColumnOf(source, loc.index + 1)

(***************************************************************************)
(* C24.  lex terminates: every turn of the main loop leaves the cursor     *)
(* past the place where the turn began (a backup with prev included) and   *)
(* not past the end of the source, and the call returns Ok, with the       *)
(* tokens pushed, exactly when the cursor is at the end of the source and  *)
(* no error was returned before; the loop ends in no other way.            *)
(***************************************************************************)
C24_Terminates ==
    /\ pc # "panic"
    /\ (arm # "none" /\ pc # "panic") => start < loc.index
    /\ loc.index <= Len(source)
    /\ (pc = "loop" /\ loc.index = Len(source))
         => ENABLED ReturnOk
    /\ (pc = "idle" /\ Len(results) = 1 /\ results[1].tag = "Ok")
         => /\ loc.index = Len(source)
            /\ results[1] = lex(source).result

(***************************************************************************)
(* C25.  lex never returns Err(InvalidIdentifier): every Err it returns is *)
(* InvalidCharacter, InvalidEscapeSequence or UnexpectedEOF.               *)
(***************************************************************************)
C25_NoInvalidIdentifier ==
    \A i \in 1..Len(results) :
        /\ results[i].tag # "InvalidIdentifier"
        /\ results[i].tag \in { "Ok", "panic" } \cup ErrTags

\* a number that runs into a name was lexed and the call returned some Err
C25_Witness ==
    /\ pc = "idle"
    /\ Len(results) = 1
    /\ results[1].tag \in ErrTags
    /\ Len(source) >= 3
    /\ source[1] \in AsciiDigits
    /\ source[2] \in AsciiLetters

(***************************************************************************)
(* C26.  lex never aborts: every call ends by returning Ok or Err, also on *)
(* a digit run above the range of usize and on an '=' met before any token *)
(* was pushed.                                                             *)
(***************************************************************************)
C26_NeverAborts ==
    /\ pc # "panic"
    /\ \A i \in 1..Len(results) : results[i].tag # "panic"

(***************************************************************************)
(* C27.  A second call of lex on the same Lexer, after a first call that   *)
(* returned Ok, returns the token sequence the first call returned.        *)
(***************************************************************************)
C27_SecondCall ==
    (Len(results) = 2 /\ results[1].tag = "Ok")
        => results[2] = results[1]

(***************************************************************************)
(* C28.  One turn of the main loop leaves the token list as it was, adds   *)
(* one token at its end, or puts one token in the place of its last token: *)
(* the tokens before the last one are never touched and the list never     *)
(* gets shorter.                                                           *)
(***************************************************************************)
C28_OnlyLastToken ==
    (pc = "loop" /\ arm # "none")
        => \/ tokens = before
           \/ /\ Len(tokens) = Len(before) + 1
              /\ Front(tokens) = before
           \/ /\ Len(tokens) = Len(before)
              /\ before # <<>>
              /\ Front(tokens) = Front(before)

\* a merge with another token before the colon
C28_Witness ==
    /\ Took("equals")
    /\ Len(before) >= 2
    /\ Len(tokens) = Len(before)
    /\ Last(before).kind = "TypeAssignment"
    /\ Last(tokens).kind = "UnTypedAssignment"

(***************************************************************************)
(* C29.  The cursor stays within the source and no counter of the          *)
(* Location goes below its least value: the index is between 0 and the     *)
(* length of the source, the line is at least 1 and the column at least    *)
(* 0; this holds at every loop head and return, and of the Location an     *)
(* operator arm retreats from (index at least 1, column at least 1: the    *)
(* character retreated over is the operator) and of the one it retreats    *)
(* to.                                                                     *)
(***************************************************************************)
InBounds(l) ==
    /\ 0 <= l.index /\ l.index <= Len(source)
    /\ l.line >= 1
    /\ l.column >= 0

\* the turn about to begin calls prev(): an operator, then a character that
\* makes neither a short assignment nor a comment
BacksUp ==
    /\ pc = "loop"
    /\ loc.index + 1 < Len(source)
    /\ LET c == source[loc.index + 1]
           n == source[loc.index + 2]
       IN  \/ c \in { "+", "-", "*", "%" } /\ n # "="
           \/ c = "/" /\ n \notin { "=", "/", "*" }

C29_InBounds ==
    /\ InBounds(loc)
    /\ BacksUp
         => LET l1 == next(source, loc) IN
            /\ InBounds(l1)
            /\ l1.index >= 1
            /\ l1.column >= 1
            /\ InBounds(prev(source, l1))

(***************************************************************************)
(* C30.  The running line length is the column: at every loop head and     *)
(* return current_line_length equals column, and when the character just   *)
(* consumed is a newline prev_line_length is the number of characters of   *)
(* the line that newline ended.                                            *)
(***************************************************************************)
C30_LineLength ==
    pc \in { "loop", "idle" }
        => /\ loc.current_line_length = loc.column
           /\ (loc.index >= 1 /\ source[loc.index] = "\n")
                => loc.prev_line_length = ColumnOf(source, loc.index)

=============================================================================
